---- MODULE Spec2Model ----
(***************************************************************************)
(* pymatgen.phonon.ir_spectra: the IRDielectricTensor class.               *)
(*                                                                         *)
(* Numbers.  A Python/numpy real is modelled as an exact rational <<n, d>> *)
(* in lowest terms with d > 0; <<0, 0>> is NaN, the non-finite value a     *)
(* division by a zero denominator leaves in a numpy array.  A complex      *)
(* quotient num/den is kept as the fraction [num, den], and an array       *)
(* element that is built up with += is kept as the sequence of its         *)
(* non-zero addends in the order they were added (x + 0 = x); it denotes   *)
(* their sum.  Real and imaginary parts are computed from the addends      *)
(* (complex addition is component-wise).                                   *)
(***************************************************************************)
EXTENDS Integers, Sequences, FiniteSets, Bags, TLC

(* The four attributes of the IRDielectricTensor object; ctor, the raw     *)
(* arguments its constructor was given; pc and last, the caller's position *)
(* and the call it has just made (operation, arguments, what came back);   *)
(* memo, an earlier get_ir_spectra call the caller kept; files, the file   *)
(* system write_json writes to.                                            *)
VARIABLES structure, oscillator_strength, phfreqs_gamma, epsilon_infinity,
          ctor, pc, last, files, memo

vars == <<structure, oscillator_strength, phfreqs_gamma, epsilon_infinity,
          ctor, pc, last, files, memo>>

(* ------------------------------ bounds -------------------------------- *)
MaxModes == 5
MaxDivs == 3
DefaultDivs == 3
MaxComponents == 2
MaxRoundTrips == 2

(* ------------------------- program constants -------------------------- *)
NAcoustic == 3
BroadFactor == 20
MilliScale == 1000

None == <<>>
Idx == 0..2

(* ------------------------- rational arithmetic ------------------------ *)
Abs(n) == IF n < 0 THEN -n ELSE n

RECURSIVE GCD(_, _)
GCD(a, b) == IF b = 0 THEN a ELSE GCD(b, a % b)

NaN == <<0, 0>>
IsNaN(x) == x[2] = 0

Rat(n, d) ==
    IF d = 0 THEN NaN
    ELSE LET g == GCD(Abs(n), Abs(d))
             s == IF d < 0 THEN -1 ELSE 1
         IN <<(s * n) \div g, (s * d) \div g>>

R(n) == <<n, 1>>
Zero == R(0)

RAdd(x, y) == IF IsNaN(x) \/ IsNaN(y) THEN NaN
              ELSE Rat(x[1] * y[2] + y[1] * x[2], x[2] * y[2])
RNeg(x) == IF IsNaN(x) THEN NaN ELSE <<-x[1], x[2]>>
RSub(x, y) == RAdd(x, RNeg(y))
RMul(x, y) == IF IsNaN(x) \/ IsNaN(y) THEN NaN
              ELSE Rat(x[1] * y[1], x[2] * y[2])
RDiv(x, y) == IF IsNaN(x) \/ IsNaN(y) \/ y[1] = 0 THEN NaN
              ELSE Rat(x[1] * y[2], x[2] * y[1])
RLess(x, y) == x[1] * y[2] < y[1] * x[2]

(* Python sequences are 0-based. *)
At(s, i) == s[i + 1]

(* The builtin max over a non-empty sequence of reals. *)
RECURSIVE MaxFrom(_, _, _)
MaxFrom(s, i, m) ==
    IF i > Len(s) THEN m
    ELSE MaxFrom(s, i + 1, IF RLess(m, s[i]) THEN s[i] ELSE m)

PyMax(s) == MaxFrom(s, 2, s[1])

(* ------------------------------ numpy --------------------------------- *)
(* np.array(x): an array object holding a copy of the (nested) list x.    *)
np_array(x) == [type |-> "ndarray", data |-> x]

(* ndarray.tolist(): the (nested) list of the array's elements.           *)
tolist(a) == a.data

(* A raw oscillator-strength element is a complex number [re, im];        *)
(* ndarray.real keeps the real part of every element.                     *)
Cx(re, im) == [re |-> re, im |-> im]
RealPart(x) == Cx(x.re, Zero)

real(a) ==
    [a EXCEPT !.data =
        [i \in DOMAIN a.data |->
            [r \in Idx |-> [c \in Idx |-> RealPart(a.data[i][r][c])]]]]

(* Faulty variant: the step is (stop - start)/num, so stop is not reached. *)
linspace_no_endpoint(start, stop, num) ==
    [k \in 1..num |->
        RAdd(start, RMul(R(k - 1), RDiv(RSub(stop, start), R(num))))]

(* np.linspace(start, stop, num), endpoint included.                      *)
linspace(start, stop, num) ==
    IF num = 1 THEN <<start>>
    ELSE [k \in 1..num |->
            IF k = num THEN stop
            ELSE RAdd(start, RMul(R(k - 1), RDiv(RSub(stop, start), R(num - 1))))]

(* num / den for a real num and a complex den, as a fraction.             *)
Quot(num, den) == [num |-> num, den |-> den]
CxZero == Cx(Zero, Zero)
CxOne == Cx(R(1), Zero)
IsZeroQuot(q) == q.num = Zero /\ q.den # CxZero

(* acc += q on one array element *)
AccZero == <<>>
AccAdd(acc, q) == IF IsZeroQuot(q) THEN acc ELSE Append(acc, q)

(* np.zeros((divs, 3, 3), dtype=complex)                                  *)
zeros(divs) == [k \in 1..divs |-> [r \in Idx |-> [c \in Idx |-> AccZero]]]

(* The value of num/den = num*conj(den)/|den|^2; a zero denominator gives *)
(* a non-finite value.                                                    *)
CDiv(q) ==
    LET n2 == RAdd(RMul(q.den.re, q.den.re), RMul(q.den.im, q.den.im))
    IN IF n2 = Zero THEN Cx(NaN, NaN)
       ELSE Cx(RDiv(RMul(q.num, q.den.re), n2),
               RDiv(RMul(q.num, RNeg(q.den.im)), n2))

(* z.real and z.imag of an accumulated element: the parts of its addends  *)
z_real(z) == [n \in DOMAIN z |-> CDiv(z[n]).re]
z_imag(z) == [n \in DOMAIN z |-> CDiv(z[n]).im]

(* ------------------------- IRDielectricTensor ------------------------- *)
Self == [structure |-> structure, oscillator_strength |-> oscillator_strength,
         phfreqs_gamma |-> phfreqs_gamma, epsilon_infinity |-> epsilon_infinity]

(* __init__ *)
init(osc, phfreqs, eps, struct) ==
    [structure |-> struct,
     oscillator_strength |-> real(np_array(osc)),
     phfreqs_gamma |-> np_array(phfreqs),
     epsilon_infinity |-> np_array(eps)]

nphfreqs(obj) == Len(obj.phfreqs_gamma.data)

Ok(v) == [status |-> "ok", exc |-> "", value |-> v]
Raise(e) == [status |-> "raise", exc |-> e, value |-> None]

(* max() of an empty sequence raises ValueError. *)
max_phfreq(obj) ==
    IF Len(obj.phfreqs_gamma.data) = 0 THEN Raise("ValueError: max() arg is an empty sequence")
    ELSE Ok(PyMax(obj.phfreqs_gamma.data))

(* A broadening argument: a Python float or int, or a list, tuple or      *)
(* 1-d ndarray of reals.                                                  *)
PyFloat(x) == [kind |-> "float", val |-> x, items |-> <<>>]
PyInt(x) == [kind |-> "int", val |-> x, items |-> <<>>]
PySeq(kind, items) == [kind |-> kind, val |-> Zero, items |-> items]
PyList(items) == PySeq("list", items)
Repeat(x, n) == [i \in 1..n |-> x]

isinstance_float(b) == b.kind = "float"
isinstance_list(b) == b.kind = "list"
IsScalar(b) == b.kind \in {"float", "int"}

(* max(broad) *)
max_broad(b) ==
    IF IsScalar(b) THEN Raise("TypeError: object is not iterable")
    ELSE IF Len(b.items) = 0 THEN Raise("ValueError: max() arg is an empty sequence")
    ELSE Ok(PyMax(b.items))

(* broad[i] *)
getitem(b, i) ==
    IF IsScalar(b) THEN Raise("TypeError: object is not subscriptable")
    ELSE IF i >= Len(b.items) THEN Raise("IndexError: index out of range")
    ELSE Ok(At(b.items, i))

(* broad = [broad]*self.nphfreqs when broad is a float (lines 100-101)    *)
normalize_broad(obj, broad) ==
    IF isinstance_float(broad) THEN PyList(Repeat(broad.val, nphfreqs(obj)))
    ELSE broad

(* the length test of lines 102-104  *)
length_mismatch(obj, broad) ==
    isinstance_list(broad) /\ Len(broad.items) # nphfreqs(obj)

(* Faulty variant: "if not emax", which also replaces an emax of 0.       *)
resolve_emax_falsy(obj, broad, emax) ==
    IF emax # None /\ emax # Zero THEN Ok(emax)
    ELSE LET mf == max_phfreq(obj)
             mb == max_broad(broad)
         IN IF mf.status = "raise" THEN mf
            ELSE IF mb.status = "raise" THEN mb
            ELSE Ok(RAdd(mf.value, RMul(mb.value, R(BroadFactor))))

(* emax = self.max_phfreq + max(broad)*20 when emax is None (106-107)     *)
resolve_emax(obj, broad, emax) ==
    IF emax # None THEN Ok(emax)
    ELSE LET mf == max_phfreq(obj)
             mb == max_broad(broad)
         IN IF mf.status = "raise" THEN mf
            ELSE IF mb.status = "raise" THEN mb
            ELSE Ok(RAdd(mf.value, RMul(mb.value, R(BroadFactor))))

(* g, num and den of lines 113-115 for mode i: num at entry r,c and den  *)
(* at sample frequency w                                                  *)
mode_num(obj, i, r, c) == At(obj.oscillator_strength.data, i)[r][c].re

(* Faulty variant: a fixed width g = broad[i], not scaled by the frequency *)
mode_den_fixed_width(obj, b, i, w) ==
    LET f == At(obj.phfreqs_gamma.data, i)
    IN Cx(RSub(RMul(f, f), RMul(w, w)), RNeg(b))

mode_den(obj, b, i, w) ==
    LET f == At(obj.phfreqs_gamma.data, i)
        g == RMul(b, f)
    IN Cx(RSub(RMul(f, f), RMul(w, w)), RNeg(g))

(* for i in range(3, len(self.phfreqs_gamma)): dielectric_tensor += ...   *)
FirstMode == NAcoustic

RECURSIVE mode_loop(_, _, _, _, _)
mode_loop(obj, broad, frequencies, i, dt) ==
    IF i >= Len(obj.phfreqs_gamma.data) THEN Ok(dt)
    ELSE LET b == getitem(broad, i)
         IN IF b.status = "raise" THEN b
            ELSE mode_loop(obj, broad, frequencies, i + 1,
                    [k \in DOMAIN dt |->
                        LET den == mode_den(obj, b.value, i, frequencies[k])
                        IN [r \in Idx |-> [c \in Idx |->
                              AccAdd(dt[k][r][c], Quot(mode_num(obj, i, r, c), den))]]])

(* dielectric_tensor += self.epsilon_infinity[na, :, :] (line 117)        *)
add_epsilon(obj, dt) ==
    [k \in DOMAIN dt |-> [r \in Idx |-> [c \in Idx |->
        AccAdd(dt[k][r][c], Quot(obj.epsilon_infinity.data[r][c], CxOne))]]]

spectra(obj, broad0, emin, emax0, divs) ==
    LET broad == normalize_broad(obj, broad0)
    IN IF length_mismatch(obj, broad)
       THEN Raise("ValueError: The number of elements in the broad_list is not the same as the number of frequencies")
       ELSE LET emax == resolve_emax(obj, broad, emax0)
            IN IF emax.status = "raise" THEN emax
               ELSE LET frequencies == linspace(emin, emax.value, divs)
                        looped == mode_loop(obj, broad, frequencies, FirstMode, zeros(divs))
                    IN IF looped.status = "raise" THEN looped
                       ELSE Ok([frequencies |-> frequencies,
                                dielectric_tensor |-> add_epsilon(obj, looped.value),
                                emax |-> emax.value])

(* Faulty variant: the frequencies are sorted in place on the way.        *)
get_ir_spectra_sorting(obj, broad, emin, emax, divs) ==
    [self |-> [obj EXCEPT !.phfreqs_gamma.data = SortSeq(@, RLess)],
     broad |-> broad, ret |-> spectra(obj, broad, emin, emax, divs)]

(* get_ir_spectra: what the call returns or raises, and what it leaves in *)
(* the object and in the caller's broadening argument.                    *)
get_ir_spectra(obj, broad, emin, emax, divs) ==
    [self |-> obj, broad |-> broad, ret |-> spectra(obj, broad, emin, emax, divs)]

(* ------------------------------ records ------------------------------- *)
(* Structure.as_dict / Structure.from_dict of pymatgen.core.structure.    *)
Structure_as_dict(st) ==
    [module |-> "pymatgen.core.structure", class |-> "Structure",
     lattice |-> st.lattice, sites |-> st.sites]

Structure_from_dict(d) == [lattice |-> d.lattice, sites |-> d.sites]

(* Faulty variant: epsilon_infinity is written from the frequencies.      *)
as_dict_copy_paste(obj) ==
    [module |-> "pymatgen.phonon.ir_spectra", class |-> "IRDielectricTensor",
     oscillator_strength |-> tolist(obj.oscillator_strength),
     phfreqs_gamma |-> tolist(obj.phfreqs_gamma),
     structure |-> Structure_as_dict(obj.structure),
     epsilon_infinity |-> tolist(obj.phfreqs_gamma)]

as_dict(obj) ==
    [module |-> "pymatgen.phonon.ir_spectra", class |-> "IRDielectricTensor",
     oscillator_strength |-> tolist(obj.oscillator_strength),
     phfreqs_gamma |-> tolist(obj.phfreqs_gamma),
     structure |-> Structure_as_dict(obj.structure),
     epsilon_infinity |-> tolist(obj.epsilon_infinity)]

from_dict(d) ==
    init(d.oscillator_strength, d.phfreqs_gamma, d.epsilon_infinity,
         Structure_from_dict(d.structure))

(* write_json: open(filename, 'w') fails on an unwritable path; otherwise *)
(* the file holds the JSON text of as_dict().  A file is the sequence of  *)
(* the texts it holds: none when it does not exist, else one.             *)
Filenames == {"ir.json", "/missing/ir.json"}
Writable == {"ir.json"}

write_json(obj, filename, fs) ==
    IF filename \notin Writable
    THEN [self |-> obj, files |-> fs, ret |-> Raise("IOError: cannot open file")]
    ELSE [self |-> obj, files |-> [fs EXCEPT ![filename] = <<[json |-> as_dict(obj)]>>],
          ret |-> Ok(None)]

(* ----------------------------- get_plotter ---------------------------- *)
(* An element of a component specifier: a character or an int.            *)
Str(c) == [py |-> "str", v |-> c]
Int0(n) == [py |-> "int", v |-> n]

(* Faulty variant: the int indices are missing from the map.              *)
directions_keys_letters_only == {Str("x"), Str("y"), Str("z")}

directions_keys == {Str("x"), Str("y"), Str("z"), Int0("0"), Int0("1"), Int0("2")}

directions_map(e) ==
    CASE e = Str("x") -> 0 [] e = Str("y") -> 1 [] e = Str("z") -> 2
      [] e = Int0("0") -> 0 [] e = Int0("1") -> 1 [] e = Int0("2") -> 2

(* functions_map, in its iteration order, and reim_label                  *)
functions_keys == <<"re", "im">>
fstr_chars(fstr) == IF fstr = "re" THEN <<"r", "e">> ELSE <<"i", "m">>
reim_label(fstr) == IF fstr = "re" THEN "Re" ELSE "Im"
functions_map(fstr, z) == IF fstr = "re" THEN z_real(z) ELSE z_imag(z)
xyz == <<"x", "y", "z">>

(* fstr in reim: the substring test on strings (sequences of characters)  *)
substring_in(sub, str) ==
    \E p \in 0..(Len(str) - Len(sub)) :
        \A q \in 1..Len(sub) : str[p + q] = sub[q]

(* the test of line 159  *)
invalid_component(component) ==
    ~(\A n \in 1..Len(component) : component[n] \in directions_keys)
    \/ Len(component) # 2

(* Spectrum(x, y, label=label) and SpectrumPlotter.add_spectrum           *)
Spectrum(x, y, label) == [label |-> label, x |-> x, y |-> y]
add_spectrum(plotter, label, spectrum) == Append(plotter, spectrum)

(* Faulty variant: the frequencies are not rescaled.                      *)
scale_x_unscaled(frequencies) == frequencies

(* frequencies*1000 *)
scale_x(frequencies) == [k \in DOMAIN frequencies |-> RMul(frequencies[k], R(MilliScale))]

(* the inner loop of lines 162-168 over functions_map                     *)
RECURSIVE parts_loop(_, _, _, _, _, _, _)
parts_loop(frequencies, dt, i, j, reim, n, plotter) ==
    IF n > Len(functions_keys) THEN plotter
    ELSE LET fstr == functions_keys[n]
         IN IF substring_in(fstr_chars(fstr), reim)
            THEN LET label == <<reim_label(fstr), xyz[i + 1], xyz[j + 1]>>
                     y == [k \in DOMAIN dt |-> functions_map(fstr, dt[k][i][j])]
                 IN parts_loop(frequencies, dt, i, j, reim, n + 1,
                        add_spectrum(plotter, label,
                                     Spectrum(scale_x(frequencies), y, label)))
            ELSE parts_loop(frequencies, dt, i, j, reim, n + 1, plotter)

(* the loop of lines 158-168 over components                              *)
RECURSIVE components_loop(_, _, _, _, _, _)
components_loop(frequencies, dt, components, reim, n, plotter) ==
    IF n > Len(components) THEN Ok(plotter)
    ELSE LET component == components[n]
         IN IF invalid_component(component)
            THEN Raise("ValueError: Invalid value found in components")
            ELSE components_loop(frequencies, dt, components, reim, n + 1,
                    parts_loop(frequencies, dt,
                               directions_map(component[1]),
                               directions_map(component[2]), reim, 1, plotter))

(* The defaults of get_ir_spectra, which get_plotter calls without        *)
(* arguments: broad=0.00005, emin=0, emax=None, divs=500.  The model      *)
(* keeps emin and emax and scales broad and divs down (1/20, DefaultDivs) *)
(* so that the arithmetic stays within TLC's integers.                    *)
DefaultBroad == PyFloat(<<1, 20>>)

default_spectra(obj) == spectra(obj, DefaultBroad, Zero, None, DefaultDivs)

plotter_ret(sp, components, reim) ==
    IF sp.status = "raise" THEN sp
    ELSE components_loop(sp.value.frequencies, sp.value.dielectric_tensor,
                         components, reim, 1, <<>>)

(* get_plotter: what the call returns or raises, what it leaves in the    *)
(* object, and the spectrum it computed on the way.                       *)
get_plotter(obj, components, reim) ==
    LET sp == default_spectra(obj)
    IN [self |-> obj, ret |-> plotter_ret(sp, components, reim), spectrum |-> sp]

(* --------------------------- construction ----------------------------- *)
(* Raw constructor inputs.  OscA is the 5*I of a simple mode; OscB has    *)
(* nine distinct real parts and non-zero imaginary parts.                 *)
OscA == [r \in Idx |-> [c \in Idx |-> IF r = c THEN Cx(R(5), Zero) ELSE Cx(Zero, Zero)]]
OscB == [r \in Idx |-> [c \in Idx |-> Cx(R(3 * r + c + 1), R(r - c + 1))]]

ModeKinds == {[freq |-> R(0), osc |-> OscA],
              [freq |-> R(2), osc |-> OscB]}

(* Objects of 0..MaxModes modes: the acoustic modes (the first three) of  *)
(* one kind, every optical mode of any kind.                              *)
ModeSeqs ==
    UNION {{m \in [1..n -> ModeKinds] :
                \A i \in 1..n : i <= NAcoustic => m[i] = m[1]} :
           n \in 0..MaxModes}

EpsA == [r \in Idx |-> [c \in Idx |-> IF r = c THEN R(2) ELSE Zero]]
EpsB == [r \in Idx |-> [c \in Idx |-> R(3 * r + c + 7)]]
EpsValues == {EpsA, EpsB}

StructureValues == {[lattice |-> "cubic", sites |-> <<"Na", "Cl">>]}

NoCall == [op |-> "none"]
NoFiles == [f \in Filenames |-> <<>>]

InitWith(modeSeqs, epsValues) ==
    \E modes \in modeSeqs, eps \in epsValues, st \in StructureValues :
        LET osc == [i \in DOMAIN modes |-> modes[i].osc]
            ph == [i \in DOMAIN modes |-> modes[i].freq]
            obj == init(osc, ph, eps, st)
        IN /\ structure = obj.structure
           /\ oscillator_strength = obj.oscillator_strength
           /\ phfreqs_gamma = obj.phfreqs_gamma
           /\ epsilon_infinity = obj.epsilon_infinity
           /\ ctor = [oscillator_strength |-> osc, phfreqs_gamma |-> ph,
                      epsilon_infinity |-> eps, structure |-> st]
           /\ pc = "idle"
           /\ last = NoCall
           /\ files = NoFiles
           /\ memo = NoCall

Init == InitWith(ModeSeqs, EpsValues)

(* ------------------------------ arguments ----------------------------- *)
BroadValues == {Zero, <<1, 10>>}
ScalarArgs == {PyFloat(b) : b \in BroadValues} \cup {PyInt(R(0)), PyInt(R(1))}
Ramp(n) == [i \in 1..n |-> Rat(n - i + 1, 10)]
SeqLens(N) == {m \in {N - 1, N, N + 1} : m >= 0}
SeqArgs(N) ==
    UNION {{PyList(Repeat(<<1, 10>>, n)), PyList(Ramp(n)),
            PySeq("tuple", Ramp(n)), PySeq("ndarray", Repeat(<<1, 10>>, n))} :
           n \in SeqLens(N)}
BroadArgs(N) == ScalarArgs \cup SeqArgs(N)
EminValues == {R(0), R(1)}
EmaxValues == {None, R(0), R(3)}
DivsValues == 1..MaxDivs

(* The arguments of the calls of a whole life of the object. *)
LifeBroadArgs(N) == {PyFloat(<<1, 10>>), PyInt(R(1)), PyList(Ramp(N)), PyList(Ramp(N + 1))}

(* Component specifiers: strings and tuples of ints. *)
StrSpec(cs) == [n \in DOMAIN cs |-> Str(cs[n])]
IntSpec(ns) == [n \in DOMAIN ns |-> Int0(ns[n])]
Specifiers == {StrSpec(<<"x", "x">>), StrSpec(<<"z", "y">>),
               IntSpec(<<"0", "0">>), IntSpec(<<"1", "2">>),
               StrSpec(<<>>), StrSpec(<<"x">>), StrSpec(<<"x", "y", "z">>),
               StrSpec(<<"x", "q">>), StrSpec(<<"0", "0">>)}
ComponentLists == UNION {[1..n -> Specifiers] : n \in 0..MaxComponents}
ReimValues == {<<"r", "e", "i", "m">>, <<"r", "e">>, <<"r", "i", "m">>, <<>>}

LifeComponentLists == {<<StrSpec(<<"x", "x">>)>>, <<StrSpec(<<"x", "q">>)>>}

(* ------------------------------ actions ------------------------------- *)
SetSelf(obj) ==
    /\ structure' = obj.structure
    /\ oscillator_strength' = obj.oscillator_strength
    /\ phfreqs_gamma' = obj.phfreqs_gamma
    /\ epsilon_infinity' = obj.epsilon_infinity

SelfUnchanged == UNCHANGED <<structure, oscillator_strength, phfreqs_gamma, epsilon_infinity>>

GetIrSpectra(broad, emin, emax, divs) ==
    /\ pc = "idle"
    /\ LET r == get_ir_spectra(Self, broad, emin, emax, divs)
       IN /\ SetSelf(r.self)
          /\ last' = [op |-> "get_ir_spectra",
                      args |-> [broad |-> broad, emin |-> emin, emax |-> emax, divs |-> divs],
                      broad_after |-> r.broad,
                      ret |-> r.ret]
    /\ pc' = "returned"
    /\ UNCHANGED <<ctor, files, memo>>

GetPlotter(components, reim) ==
    /\ pc = "idle"
    /\ LET r == get_plotter(Self, components, reim)
       IN /\ SetSelf(r.self)
          /\ last' = [op |-> "get_plotter",
                      args |-> [components |-> components, reim |-> reim],
                      spectrum |-> r.spectrum,
                      ret |-> r.ret]
    /\ pc' = "returned"
    /\ UNCHANGED <<ctor, files, memo>>

MaxPhfreq ==
    /\ pc = "idle"
    /\ last' = [op |-> "max_phfreq", ret |-> max_phfreq(Self)]
    /\ pc' = "returned"
    /\ SelfUnchanged
    /\ UNCHANGED <<ctor, files, memo>>

Nphfreqs ==
    /\ pc = "idle"
    /\ last' = [op |-> "nphfreqs", ret |-> Ok(nphfreqs(Self))]
    /\ pc' = "returned"
    /\ SelfUnchanged
    /\ UNCHANGED <<ctor, files, memo>>

(* m.as_dict() *)
AsDict ==
    /\ pc = "idle"
    /\ last' = [op |-> "as_dict", gen |-> 0, ret |-> Ok(as_dict(Self))]
    /\ pc' = "returned"
    /\ SelfUnchanged
    /\ UNCHANGED <<ctor, files, memo>>

(* IRDielectricTensor.from_dict(d) on the record the caller has just got  *)
FromDict ==
    /\ pc = "returned"
    /\ last.op = "as_dict"
    /\ last' = [op |-> "from_dict", gen |-> last.gen + 1, args |-> last.ret.value,
                ret |-> Ok(from_dict(last.ret.value))]
    /\ pc' = "returned"
    /\ SelfUnchanged
    /\ UNCHANGED <<ctor, files, memo>>

(* as_dict() of the object from_dict has just returned                    *)
AsDictAgain ==
    /\ pc = "returned"
    /\ last.op = "from_dict"
    /\ last.gen < MaxRoundTrips
    /\ last' = [op |-> "as_dict", gen |-> last.gen, ret |-> Ok(as_dict(last.ret.value))]
    /\ pc' = "returned"
    /\ SelfUnchanged
    /\ UNCHANGED <<ctor, files, memo>>

WriteJson(filename) ==
    /\ pc = "idle"
    /\ LET r == write_json(Self, filename, files)
       IN /\ SetSelf(r.self)
          /\ files' = r.files
          /\ last' = [op |-> "write_json", args |-> filename, ret |-> r.ret]
    /\ pc' = "returned"
    /\ UNCHANGED <<ctor, memo>>

(* The caller keeps the get_ir_spectra call it has just made. *)
Remember ==
    /\ pc = "returned"
    /\ last.op = "get_ir_spectra"
    /\ memo.op = "none"
    /\ memo' = last
    /\ pc' = "idle"
    /\ last' = NoCall
    /\ SelfUnchanged
    /\ UNCHANGED <<ctor, files>>

(* The caller takes the result; the next call can start. *)
Return ==
    /\ pc = "returned"
    /\ pc' = "idle"
    /\ last' = NoCall
    /\ SelfUnchanged
    /\ UNCHANGED <<ctor, files, memo>>

(* The whole life of one object: every operation, in any order.           *)
Next ==
    \/ \E broad \in LifeBroadArgs(nphfreqs(Self)) :
            GetIrSpectra(broad, R(0), None, 2)
    \/ \E components \in LifeComponentLists, reim \in ReimValues :
            GetPlotter(components, reim)
    \/ MaxPhfreq
    \/ Nphfreqs
    \/ AsDict
    \/ FromDict
    \/ AsDictAgain
    \/ \E filename \in Filenames : WriteJson(filename)
    \/ Remember
    \/ Return

Spec == Init /\ [][Next]_vars

(* get_ir_spectra over its arguments.                                     *)
NextSpectra ==
    \/ \E broad \in BroadArgs(nphfreqs(Self)), emin \in EminValues,
          emax \in EmaxValues, divs \in DivsValues :
            GetIrSpectra(broad, emin, emax, divs)
    \/ Return

SpecSpectra == Init /\ [][NextSpectra]_vars

(* get_plotter over its arguments, on objects of no mode and of MaxModes  *)
(* modes of one kind.                                                     *)
PlotModeSeqs == UNION {[1..n -> {k}] : k \in ModeKinds, n \in {0, MaxModes}}
InitPlot == InitWith(PlotModeSeqs, EpsValues)

NextPlot ==
    \/ \E components \in ComponentLists, reim \in ReimValues :
            GetPlotter(components, reim)
    \/ Return

SpecPlot == InitPlot /\ [][NextPlot]_vars

(* ============================ properties ============================== *)
Called(op) == pc = "returned" /\ last.op = op
Returned(op) == Called(op) /\ last.ret.status = "ok"
NModes == Len(phfreqs_gamma.data)
Frequency(i) == phfreqs_gamma.data[i + 1]
Strength(i, r, c) == oscillator_strength.data[i + 1][r][c].re
Epsilon(r, c) == epsilon_infinity.data[r][c]
BroadeningLengthMismatch ==
    "ValueError: The number of elements in the broad_list is not the same as the number of frequencies"
InvalidComponentSpec == "ValueError: Invalid value found in components"

(* A sum as the bag of its non-zero addends. *)
SeqBag(sq) ==
    [x \in {sq[n] : n \in DOMAIN sq} |-> Cardinality({n \in DOMAIN sq : sq[n] = x})]
BagAdd(bag, q) == IF IsZeroQuot(q) THEN bag ELSE bag (+) SetToBag({q})

(* broadening[i] of a scalar or per-mode broadening *)
BroadAt(b, i) == IF IsScalar(b) THEN b.val ELSE At(b.items, i)

(* oscillator_strength[i] / (frequency[i]^2 - w^2 - j*broadening[i]*frequency[i]) *)
LorentzTerm(b, i, w, r, c) ==
    Quot(Strength(i, r, c),
         Cx(RSub(RMul(Frequency(i), Frequency(i)), RMul(w, w)),
            RNeg(RMul(BroadAt(b, i), Frequency(i)))))

(* the sum of the terms of the modes 3..i *)
RECURSIVE OpticalSum(_, _, _, _, _)
OpticalSum(b, i, w, r, c) ==
    IF i < 3 THEN EmptyBag
    ELSE BagAdd(OpticalSum(b, i - 1, w, r, c), LorentzTerm(b, i, w, r, c))

(* epsilon_infinity + the sum over the modes 3..N-1 *)
ExpectedEntry(b, w, r, c) ==
    BagAdd(OpticalSum(b, NModes - 1, w, r, c), Quot(Epsilon(r, c), CxOne))

EpsilonOnly(r, c) == IF Epsilon(r, c) = Zero THEN <<>> ELSE <<Quot(Epsilon(r, c), CxOne)>>

(* C1: a scalar broadening b gives the same result as the list [b]*N,    *)
(* and does not fail where the list call succeeds.                       *)
C1_ScalarEqualsList ==
    (Called("get_ir_spectra") /\ IsScalar(last.args.broad)) =>
        last.ret = spectra(Self, PyList(Repeat(last.args.broad.val, NModes)),
                           last.args.emin, last.args.emax, last.args.divs)

(* C2: a broadening sequence (list, tuple or array) whose length differs *)
(* from N is rejected with the ValueError of the length test.            *)
C2_MismatchRejected ==
    (Called("get_ir_spectra") /\ ~IsScalar(last.args.broad)
        /\ Len(last.args.broad.items) # NModes) =>
        (last.ret.status = "raise" /\ last.ret.exc = BroadeningLengthMismatch)

(* C3: with N >= 3 modes, the tensor at every sample frequency w is      *)
(* epsilon_infinity plus the sum over the modes 3..N-1 of                *)
(* oscillator_strength[i]/(frequency[i]^2 - w^2 - j*broadening[i]*frequency[i]); *)
(* epsilon_infinity is added once and the modes 0, 1, 2 add nothing.     *)
C3_OpticalSum ==
    (Returned("get_ir_spectra") /\ NModes >= 3) =>
        \A k \in DOMAIN last.ret.value.dielectric_tensor : \A r \in Idx, c \in Idx :
            SeqBag(last.ret.value.dielectric_tensor[k][r][c])
                = ExpectedEntry(last.args.broad, last.ret.value.frequencies[k], r, c)

C3_Witness ==
    /\ Returned("get_ir_spectra")
    /\ NModes = 5
    /\ last.args.broad = PyList(Ramp(5))
    /\ last.args.divs = 3
    /\ Frequency(0) = R(2) /\ Frequency(3) = R(2) /\ Frequency(4) = R(2)
    /\ Len(last.ret.value.dielectric_tensor[2][1][2]) = 3

(* C10: with fewer than 3 modes and a valid broadening the call returns, *)
(* and every sample of the field is epsilon_infinity.                    *)
C10_FewModes ==
    (Called("get_ir_spectra") /\ NModes < 3
        /\ (isinstance_float(last.args.broad)
            \/ (isinstance_list(last.args.broad) /\ Len(last.args.broad.items) = NModes))) =>
        /\ last.ret.status = "ok"
        /\ Len(last.ret.value.dielectric_tensor) = last.args.divs
        /\ \A k \in DOMAIN last.ret.value.dielectric_tensor : \A r \in Idx, c \in Idx :
              last.ret.value.dielectric_tensor[k][r][c] = EpsilonOnly(r, c)

(* The grid of the call that has returned, and the bounds it was given.   *)
Grid == last.ret.value.frequencies
Field == last.ret.value.dielectric_tensor
FreqMin == last.args.emin
(* freq_max: the one given or, when unset, the default the call used      *)
FreqMax == IF last.args.emax # None THEN last.args.emax ELSE last.ret.value.emax

UniformlySpaced(g) ==
    \A k \in 1..(Len(g) - 1) : RSub(g[k + 1], g[k]) = RSub(g[2], g[1])
FieldOnGrid ==
    /\ Len(Field) = last.args.divs
    /\ \A k \in DOMAIN Field : \A r \in Idx, c \in Idx :
          SeqBag(Field[k][r][c]) = ExpectedEntry(last.args.broad, Grid[k], r, c)

(* C4 as claimed: D samples, uniformly spaced and increasing, the first  *)
(* freq_min and the last freq_max, and D tensors, the k-th computed at   *)
(* the k-th sample.                                                      *)
C4_GridAsClaimed ==
    Returned("get_ir_spectra") =>
        /\ Len(Grid) = last.args.divs
        /\ UniformlySpaced(Grid)
        /\ \A k \in 1..(Len(Grid) - 1) : ~RLess(Grid[k + 1], Grid[k])
        /\ Grid[1] = FreqMin
        /\ Grid[Len(Grid)] = FreqMax
        /\ FieldOnGrid

(* C4 (amended): D samples, uniformly spaced, the first freq_min and,    *)
(* for D >= 2, the last freq_max; increasing when freq_min < freq_max,   *)
(* decreasing when freq_min > freq_max, constant when they are equal;    *)
(* and D tensors, the k-th computed at the k-th sample.                  *)
C4_GridShape ==
    Returned("get_ir_spectra") =>
        /\ Len(Grid) = last.args.divs
        /\ UniformlySpaced(Grid)
        /\ Grid[1] = FreqMin
        /\ (last.args.divs >= 2 => Grid[Len(Grid)] = FreqMax)
        /\ (RLess(FreqMin, FreqMax) =>
                \A k \in 1..(Len(Grid) - 1) : RLess(Grid[k], Grid[k + 1]))
        /\ (RLess(FreqMax, FreqMin) =>
                \A k \in 1..(Len(Grid) - 1) : RLess(Grid[k + 1], Grid[k]))
        /\ (FreqMin = FreqMax => \A k \in DOMAIN Grid : Grid[k] = FreqMin)
        /\ FieldOnGrid

C4_Witness ==
    /\ Returned("get_ir_spectra")
    /\ last.args.divs = 3
    /\ last.args.emin = R(1)
    /\ last.args.emax = None
    /\ NModes = 5
    /\ Grid[1] = R(1) /\ RLess(Grid[1], Grid[2]) /\ RLess(Grid[2], Grid[3])
    /\ Len(Field) = 3

(* max over all N frequencies, and over the per-mode broadening values    *)
AllFrequencies == {Frequency(i) : i \in 0..(NModes - 1)}
AllBroadenings == {BroadAt(last.args.broad, i) : i \in 0..(NModes - 1)}
MaxOf(S) == CHOOSE m \in S : \A x \in S : ~RLess(m, x)

(* the uniform grid of D samples from lo to hi *)
UniformGrid(lo, hi, D) ==
    [k \in 1..D |->
        IF D = 1 THEN lo
        ELSE RAdd(lo, RDiv(RMul(R(k - 1), RSub(hi, lo)), R(D - 1)))]

(* C5: with freq_max unset the upper bound of the grid is the maximum    *)
(* over all N frequencies plus 20 times the maximum over the N per-mode  *)
(* broadening values; a freq_max that is given (0 included) is used      *)
(* unchanged, and the grid depends on nothing else of the object or the  *)
(* broadening.                                                           *)
C5_UpperBound ==
    (Returned("get_ir_spectra")
        /\ (IsScalar(last.args.broad) \/ Len(last.args.broad.items) = NModes)) =>
        /\ last.args.emax = None =>
              /\ last.ret.value.emax
                    = RAdd(MaxOf(AllFrequencies), RMul(R(20), MaxOf(AllBroadenings)))
              /\ Grid = UniformGrid(FreqMin, last.ret.value.emax, last.args.divs)
        /\ last.args.emax # None =>
              /\ last.ret.value.emax = last.args.emax
              /\ Grid = UniformGrid(FreqMin, last.args.emax, last.args.divs)

C5_Witness ==
    /\ Returned("get_ir_spectra")
    /\ last.args.emax = None
    /\ last.args.broad = PyList(Ramp(4))
    /\ NModes = 4
    /\ Frequency(0) = R(2) /\ Frequency(3) = R(0)
    /\ last.args.divs = 3
    /\ Grid[3] = R(10)

(* ------------------------------ records ------------------------------- *)
(* C6: from_dict(as_dict(m)) has m's oscillator strengths (the real      *)
(* parts of the raw input), frequencies and epsilon_infinity, element    *)
(* for element, and the structure rebuilt from m's structure record; a   *)
(* second round trip gives the same again.                               *)
C6_RoundTrip ==
    Called("from_dict") =>
        /\ last.ret.status = "ok"
        /\ last.ret.value.oscillator_strength = oscillator_strength
        /\ last.ret.value.phfreqs_gamma = phfreqs_gamma
        /\ last.ret.value.epsilon_infinity = epsilon_infinity
        /\ last.ret.value.structure = Structure_from_dict(Structure_as_dict(structure))
        /\ Len(last.ret.value.oscillator_strength.data) = Len(ctor.oscillator_strength)
        /\ \A i \in DOMAIN ctor.oscillator_strength : \A r \in Idx, c \in Idx :
              last.ret.value.oscillator_strength.data[i][r][c]
                  = Cx(ctor.oscillator_strength[i][r][c].re, Zero)

C6_Witness ==
    /\ Called("from_dict")
    /\ last.gen = 2
    /\ NModes = 5
    /\ ctor.oscillator_strength[5][1][0].im # Zero
    /\ last.ret.value.oscillator_strength.data[5][1][0] = Cx(R(4), Zero)

(* ------------------------------ curves -------------------------------- *)
ValidSpecifier(sp) ==
    /\ Len(sp) = 2
    /\ \A n \in DOMAIN sp :
          \/ sp[n].py = "str" /\ sp[n].v \in {"x", "y", "z"}
          \/ sp[n].py = "int" /\ sp[n].v \in {"0", "1", "2"}

(* C7: get_plotter accepts the components iff every specifier has two    *)
(* elements, each one of x, y, z or 0, 1, 2; otherwise it fails with the *)
(* ValueError naming the component and returns no curves.                *)
C7_ComponentValidation ==
    (Called("get_plotter") /\ NModes >= 1) =>
        /\ last.ret.status = "ok"
              <=> \A n \in DOMAIN last.args.components :
                      ValidSpecifier(last.args.components[n])
        /\ last.ret.status # "ok" =>
              (last.ret.exc = InvalidComponentSpec /\ last.ret.value = None)

C7_Witness ==
    /\ Called("get_plotter")
    /\ NModes = 5
    /\ last.args.components = <<StrSpec(<<"x", "x">>), StrSpec(<<"0", "0">>)>>
    /\ last.args.reim = <<"r", "e", "i", "m">>
    /\ last.ret.exc = InvalidComponentSpec

(* the parts a reim selection asks for *)
RequestedParts(reim) ==
    CASE reim = <<"r", "e", "i", "m">> -> <<"re", "im">>
      [] reim = <<"r", "e">> -> <<"re">>
      [] reim = <<"r", "i", "m">> -> <<"im">>
      [] reim = <<>> -> <<>>

Resolve(e) ==
    CASE e.v \in {"x", "0"} -> 0 [] e.v \in {"y", "1"} -> 1 [] e.v \in {"z", "2"} -> 2

PartOf(p, z) ==
    [n \in DOMAIN z |-> IF p = "re" THEN CDiv(z[n]).re ELSE CDiv(z[n]).im]

Curves == last.ret.value
PlotGrid == last.spectrum.value.frequencies
PlotField == last.spectrum.value.dielectric_tensor

(* C8: one curve per (component, requested part), components in the      *)
(* caller's order and the parts of one component consecutive; the curve  *)
(* of component (i, j) and part p has x = 1000 * grid and y[k] = part p  *)
(* of field[k][i][j]; specifiers that resolve to the same indices give   *)
(* the same curves.                                                      *)
C8_CurveExtraction ==
    Returned("get_plotter") =>
        LET comps == last.args.components
            parts == RequestedParts(last.args.reim)
            P == Len(parts)
        IN /\ Len(Curves) = Len(comps) * P
           /\ \A n \in DOMAIN comps : \A q \in DOMAIN parts :
                 LET curve == Curves[(n - 1) * P + q]
                     i == Resolve(comps[n][1])
                     j == Resolve(comps[n][2])
                 IN /\ Len(curve.x) = Len(PlotGrid)
                    /\ \A k \in DOMAIN PlotGrid : curve.x[k] = RMul(R(1000), PlotGrid[k])
                    /\ Len(curve.y) = Len(PlotField)
                    /\ \A k \in DOMAIN PlotField :
                          curve.y[k] = PartOf(parts[q], PlotField[k][i][j])
           /\ \A n \in DOMAIN comps, m \in DOMAIN comps :
                 (Resolve(comps[n][1]) = Resolve(comps[m][1])
                     /\ Resolve(comps[n][2]) = Resolve(comps[m][2])) =>
                    \A q \in DOMAIN parts :
                        Curves[(n - 1) * P + q] = Curves[(m - 1) * P + q]

C8_Witness ==
    /\ Returned("get_plotter")
    /\ NModes = 5
    /\ Frequency(4) = R(2)
    /\ last.args.components = <<StrSpec(<<"z", "y">>), IntSpec(<<"0", "0">>)>>
    /\ last.args.reim = <<"r", "e", "i", "m">>
    /\ Len(Curves) = 4
    /\ Curves[2].label = <<"Im", "z", "y">>
    /\ Curves[3].label = <<"Re", "x", "x">>
    /\ Curves[1].y # Curves[2].y

(* ----------------------------- lifecycle ------------------------------ *)
(* C9: whatever calls are made, the object's attributes are the values   *)
(* set at construction, a broadening list passed in is left as it was,   *)
(* and two get_ir_spectra calls with equal arguments return the same.    *)
C9_Immutable ==
    /\ Self = init(ctor.oscillator_strength, ctor.phfreqs_gamma,
                   ctor.epsilon_infinity, ctor.structure)
    /\ Called("get_ir_spectra") => last.broad_after = last.args.broad
    /\ (Called("get_ir_spectra") /\ memo.op = "get_ir_spectra"
            /\ memo.args = last.args) => last.ret = memo.ret

C9_Witness ==
    /\ Returned("get_ir_spectra")
    /\ memo.op = "get_ir_spectra"
    /\ memo.args = last.args
    /\ last.args.broad = PyList(Ramp(5))
    /\ NModes = 5
    /\ Frequency(0) = R(2) /\ Frequency(4) = R(0)
    /\ Len(files["ir.json"]) = 1

====
